---- MODULE Spec2Model ----
(***************************************************************************)
(* State-machine model of stack.py: the bounded Stack, the Instruction     *)
(* constructor and the fetch/dispatch loop of StackMachine.run with the    *)
(* thirteen opcode methods.                                                *)
(*                                                                         *)
(* Python values that can sit on the value stack are integers and None     *)
(* (the operand of an Instruction built as Instruction("loadcon")); they   *)
(* are modelled as tagged records so that the two never get confused.      *)
(***************************************************************************)
EXTENDS Integers, Sequences, FiniteSets, TLC

\* ------------------------------------------------------------------ bounds
MaxLen == 3        \* longest enumerated program
MaxCap == 3        \* largest stack capacity tried
MaxVal == 40       \* exploration stops when an integer leaves -MaxVal..MaxVal
MaxOut == 3        \* exploration stops when more values would be written
MaxN   == 5        \* N ranges over -MaxN..MaxN in [loadcon N, dup, mpy, write]
MaxInit == 2       \* most initial elements given to a Stack built on its own

\* --------------------------------------------------------------- constants
TRUE_  == 1
FALSE_ == 0

INSTRUCTIONS ==
    {"add", "negate", "equal", "zero", "one", "loadcon", "br", "br_false",
     "dup", "mpy", "write", "swap", "less"}

\* ------------------------------------------------------------------ values
None     == [tag |-> "None", val |-> 0]
IntV(n)  == [tag |-> "int", val |-> n]
IsInt(v) == v.tag = "int"

\* Python ==, defined between any two values (None == 1 is False).
PyEq(a, b) == a = b

\* ------------------------------------------------------------------- Stack
\* Stack.__init__ that also rejects elements filling the stack exactly.
StackInitOffByOne(size_limit, elements) ==
    IF Len(elements) >= size_limit
    THEN [ok |-> FALSE, elems |-> <<>>]
    ELSE [ok |-> TRUE, elems |-> elements]

\* Stack.__init__(size_limit, elements): fails when the elements do not fit.
StackInit(size_limit, elements) ==
    IF Len(elements) > size_limit
    THEN [ok |-> FALSE, elems |-> <<>>]
    ELSE [ok |-> TRUE, elems |-> elements]

\* Stack.push with the capacity test left out.
PushUnchecked(s, elem, limit) == Append(s, elem)

\* Stack.push with the capacity test off by one (len > limit).
PushOffByOne(s, elem, limit) ==
    IF Len(s) > limit THEN s ELSE Append(s, elem)

\* Stack.push: the list after push(elem) on a stack of capacity limit.
Push(s, elem, limit) ==
    IF Len(s) + 1 > limit THEN s ELSE Append(s, elem)

\* Stack.pop that takes the oldest element (pop(0)) as its value.
PopValueOldest(s) == IF Len(s) > 0 THEN s[1] ELSE None

\* Stack.pop: the value returned, None on an empty stack.
PopValue(s) == IF Len(s) > 0 THEN s[Len(s)] ELSE None

\* Stack.pop: the list left behind.
PopRest(s) == IF Len(s) > 0 THEN SubSeq(s, 1, Len(s) - 1) ELSE s

\* ------------------------------------------------------------- Instruction
\* Instruction.__init__: which exception, if any, construction raises.
\* ("loadcon" not in name) is a substring test; on the names that pass the
\* first test it is name # "loadcon".
InstructionError(name, value) ==
    IF name \notin INSTRUCTIONS THEN "InvalidInstruction"
    ELSE IF name # "loadcon" /\ value # None THEN "UnexpectedValue"
    ELSE "ok"

\* The object a successful construction yields.
Instruction(name, value) == [name |-> name, value |-> value]

\* ------------------------------------------------------------ opcode bodies
\* Each opcode method is an operator from the value stack s, the program
\* counter p and the capacity limit to the outcome of the call: the stack and
\* program counter it leaves, the values it printed through write, and the
\* exception it raised ("" when it returned normally).  A raise keeps the
\* pops made before the failing expression.
Return(s, p)      == [stack |-> s, pc |-> p, emit |-> <<>>, raised |-> ""]
Raise(s, p, exc)  == [stack |-> s, pc |-> p, emit |-> <<>>, raised |-> exc]

loadcon(s, p, limit, value) == Return(Push(s, value, limit), p)

zero(s, p, limit) == Return(Push(s, IntV(0), limit), p)

one(s, p, limit) == Return(Push(s, IntV(1), limit), p)

\* br that pops the offset and then forgets to add it.
br_no_jump(s, p, limit) ==
    IF Len(s) < 1 THEN Return(s, p) ELSE Return(PopRest(s), p)

br(s, p, limit) ==
    IF Len(s) < 1 THEN Return(s, p)
    ELSE LET offset_index == PopValue(s)
             s1 == PopRest(s)
         IN  IF IsInt(offset_index)
             THEN Return(s1, p + offset_index.val)
             ELSE Raise(s1, p, "TypeError")

\* br_false that tests for one element instead of two.
br_false_one_elem(s, p, limit) ==
    IF Len(s) < 1 THEN Return(s, p)
    ELSE LET offset_index == PopValue(s)
             s1 == PopRest(s)
             check_condition == PopValue(s1)
             s2 == PopRest(s1)
         IN  IF ~PyEq(check_condition, IntV(TRUE_))
             THEN IF IsInt(offset_index)
                  THEN Return(s2, p + offset_index.val)
                  ELSE Raise(s2, p, "TypeError")
             ELSE Return(s2, p)

br_false(s, p, limit) ==
    IF Len(s) < 2 THEN Return(s, p)
    ELSE LET offset_index == PopValue(s)
             s1 == PopRest(s)
             check_condition == PopValue(s1)
             s2 == PopRest(s1)
         IN  IF ~PyEq(check_condition, IntV(TRUE_))
             THEN IF IsInt(offset_index)
                  THEN Return(s2, p + offset_index.val)
                  ELSE Raise(s2, p, "TypeError")
             ELSE Return(s2, p)

\* add that computes value_1 - value_2.
add_as_sub(s, p, limit) ==
    IF Len(s) < 2 THEN Return(s, p)
    ELSE LET value_1 == PopValue(s)
             s1 == PopRest(s)
             value_2 == PopValue(s1)
             s2 == PopRest(s1)
         IN  IF IsInt(value_1) /\ IsInt(value_2)
             THEN Return(Push(s2, IntV(value_1.val - value_2.val), limit), p)
             ELSE Raise(s2, p, "TypeError")

add(s, p, limit) ==
    IF Len(s) < 2 THEN Return(s, p)
    ELSE LET value_1 == PopValue(s)
             s1 == PopRest(s)
             value_2 == PopValue(s1)
             s2 == PopRest(s1)
         IN  IF IsInt(value_1) /\ IsInt(value_2)
             THEN Return(Push(s2, IntV(value_1.val + value_2.val), limit), p)
             ELSE Raise(s2, p, "TypeError")

negate(s, p, limit) ==
    IF Len(s) < 1 THEN Return(s, p)
    ELSE LET popped == PopValue(s)
             s1 == PopRest(s)
         IN  IF IsInt(popped)
             THEN Return(Push(s1, IntV(popped.val * (-1)), limit), p)
             ELSE Raise(s1, p, "TypeError")

equal(s, p, limit) ==
    IF Len(s) < 2 THEN Return(s, p)
    ELSE LET value_1 == PopValue(s)
             s1 == PopRest(s)
             value_2 == PopValue(s1)
             s2 == PopRest(s1)
         IN  IF PyEq(value_1, value_2)
             THEN Return(Push(s2, IntV(TRUE_), limit), p)
             ELSE Return(Push(s2, IntV(FALSE_), limit), p)

\* less that compares top < second_top.
less_reversed(s, p, limit) ==
    IF Len(s) < 2 THEN Return(s, p)
    ELSE LET top == PopValue(s)
             s1 == PopRest(s)
             second_top == PopValue(s1)
             s2 == PopRest(s1)
         IN  IF IsInt(top) /\ IsInt(second_top)
             THEN IF top.val < second_top.val
                  THEN Return(Push(s2, IntV(TRUE_), limit), p)
                  ELSE Return(Push(s2, IntV(FALSE_), limit), p)
             ELSE Raise(s2, p, "TypeError")

less(s, p, limit) ==
    IF Len(s) < 2 THEN Return(s, p)
    ELSE LET top == PopValue(s)
             s1 == PopRest(s)
             second_top == PopValue(s1)
             s2 == PopRest(s1)
         IN  IF IsInt(top) /\ IsInt(second_top)
             THEN IF second_top.val < top.val
                  THEN Return(Push(s2, IntV(TRUE_), limit), p)
                  ELSE Return(Push(s2, IntV(FALSE_), limit), p)
             ELSE Raise(s2, p, "TypeError")

\* swap that turns the whole list round instead of its top two elements.
swap_whole_list(s, p, limit) ==
    IF Len(s) < 2 THEN Return(s, p)
    ELSE Return([i \in 1..Len(s) |-> s[Len(s) + 1 - i]], p)

\* swap that pushes the two values back in the order it popped them.
swap_back(s, p, limit) ==
    IF Len(s) < 2 THEN Return(s, p)
    ELSE LET value_1 == PopValue(s)
             s1 == PopRest(s)
             value_2 == PopValue(s1)
             s2 == PopRest(s1)
         IN  Return(Push(Push(s2, value_2, limit), value_1, limit), p)

swap(s, p, limit) ==
    IF Len(s) < 2 THEN Return(s, p)
    ELSE LET value_1 == PopValue(s)
             s1 == PopRest(s)
             value_2 == PopValue(s1)
             s2 == PopRest(s1)
         IN  Return(Push(Push(s2, value_1, limit), value_2, limit), p)

\* mpy that adds instead of multiplying.
mpy_as_add(s, p, limit) == add(s, p, limit)

mpy(s, p, limit) ==
    IF Len(s) < 2 THEN Return(s, p)
    ELSE LET value_1 == PopValue(s)
             s1 == PopRest(s)
             value_2 == PopValue(s1)
             s2 == PopRest(s1)
         IN  IF IsInt(value_1) /\ IsInt(value_2)
             THEN Return(Push(s2, IntV(value_1.val * value_2.val), limit), p)
             ELSE Raise(s2, p, "TypeError")

\* write that prints the top value without popping it.
write_keep(s, p, limit) ==
    IF Len(s) < 1 THEN Return(s, p)
    ELSE [stack |-> s, pc |-> p, emit |-> <<PopValue(s)>>, raised |-> ""]

write(s, p, limit) ==
    IF Len(s) < 1 THEN Return(s, p)
    ELSE [stack |-> PopRest(s), pc |-> p, emit |-> <<PopValue(s)>>, raised |-> ""]

dup(s, p, limit) ==
    IF Len(s) < 1 THEN Return(s, p)
    ELSE LET value == PopValue(s)
             s1 == PopRest(s)
         IN  Return(Push(Push(s1, value, limit), value, limit), p)

\* ---------------------------------------------------------------- programs
\* Operands given to Instruction("loadcon", v); None is Instruction("loadcon").
Operands == {None} \cup {IntV(k) : k \in {-5, -2, 2}}

\* Every Instruction whose construction returns without raising.
Constructed ==
    {Instruction(n, v) : <<n, v>> \in
        {c \in (INSTRUCTIONS \cup {"foo"}) \X Operands :
            InstructionError(c[1], c[2]) = "ok"}}

L(k) == Instruction("loadcon", IntV(k))
O(name) == Instruction(name, None)

\* main(): ["loadcon 2", "loadcon 3", "negate", "add", "write"]
ProgMain == <<L(2), L(3), O("negate"), O("add"), O("write")>>
ProgSquare(N) == <<L(N), O("dup"), O("mpy"), O("write")>>
ProgBr2 == <<L(1), L(2), O("br"), O("write"), O("write")>>
ProgBr1 == <<L(1), L(1), O("br"), O("write"), O("write")>>
ProgSwap2 == <<L(2), L(-5), O("swap"), O("swap"), O("write"), O("write")>>
ProgLoop == <<L(-2), O("br")>>
ProgSwap3 == <<L(3), L(2), L(-5), O("swap"), O("swap")>>

\* The programs run: every sequence of up to MaxLen constructed Instructions
\* and the programs above, whose Instructions construct without raising too.
Programs ==
    UNION {[1..n -> Constructed] : n \in 0..MaxLen}
    \cup {p \in {ProgMain, ProgBr2, ProgBr1, ProgSwap2, ProgLoop, ProgSwap3} \cup {ProgSquare(N) : N \in -MaxN..MaxN} :
             \A i \in 1..Len(p) : InstructionError(p[i].name, p[i].value) = "ok"}

\* ------------------------------------------------------------------- state
VARIABLES
    instructions,   \* StackMachine._instructions
    size_limit,     \* StackMachine._size_limit = Stack._size_limit
    stack,          \* Stack._stack_elements, bottom first
    pc,             \* StackMachine._program_counter
    output,         \* the values printed by write, oldest first
    status,         \* "running", "finished", or the exception run() died of
    prev            \* history: pc, stack and output before the last executed
                    \* instruction (executed = FALSE until one has run)

vars == <<instructions, size_limit, stack, pc, output, status, prev>>

\* StackMachine.__init__ on a program of constructed Instructions.  A
\* negative stack_size makes Stack.__init__ raise, so none is drawn.
Init ==
    /\ instructions \in Programs
    /\ size_limit \in {c \in 0..MaxCap : StackInit(c, <<>>).ok}
    /\ stack = StackInit(size_limit, <<>>).elems
    /\ pc = 0
    /\ output = <<>>
    /\ status = "running"
    /\ prev = [executed |-> FALSE, pc |-> 0, stack |-> <<>>, output |-> <<>>]

\* ---------------------------------------------------------------- run loop
PastEnd(p, n) == p > n - 1

\* instructions[p] for a Python list of length n: a negative index counts
\* from the end, and an index below -n raises IndexError.
IndexRaises(p, n) == p < -n

Fetch(p) ==
    IF p >= 0 THEN instructions[p + 1]
    ELSE instructions[Len(instructions) + p + 1]

\* self._program_counter += 1 after the dispatched method returned.
Advance(p) == p + 1

\* Exploration bound: integers within -MaxVal..MaxVal, at most MaxOut writes.
InBounds(res) ==
    /\ \A i \in 1..Len(res.stack) :
          IsInt(res.stack[i]) => res.stack[i].val \in -MaxVal..MaxVal
    /\ Len(output) + Len(res.emit) <= MaxOut

Fetchable ==
    /\ status = "running"
    /\ ~PastEnd(pc, Len(instructions))
    /\ ~IndexRaises(pc, Len(instructions))

\* A Python list read back to front: lst[::-1].
Reversed(lst) == [i \in 1..Len(lst) |-> lst[Len(lst) + 1 - i]]

\* display that reverses the stack's own list (list.reverse()) to print it.
display_in_place(elems) ==
    [elems |-> Reversed(elems), printed |-> Reversed(elems)]

\* StackMachine.display on a stack holding elems: the rows it prints, top
\* first, taken from a reversed copy, and the list the stack holds afterwards.
display(elems) ==
    [elems |-> elems, printed |-> Reversed(elems)]

\* getattr(self, name) called as run() calls it: with the operand for
\* loadcon, without arguments otherwise.
Dispatch(instr, s, p, limit) ==
    CASE instr.name = "loadcon"  -> loadcon(s, p, limit, instr.value)
      [] instr.name = "zero"     -> zero(s, p, limit)
      [] instr.name = "one"      -> one(s, p, limit)
      [] instr.name = "br"       -> br(s, p, limit)
      [] instr.name = "br_false" -> br_false(s, p, limit)
      [] instr.name = "add"      -> add(s, p, limit)
      [] instr.name = "negate"   -> negate(s, p, limit)
      [] instr.name = "equal"    -> equal(s, p, limit)
      [] instr.name = "less"     -> less(s, p, limit)
      [] instr.name = "swap"     -> swap(s, p, limit)
      [] instr.name = "mpy"      -> mpy(s, p, limit)
      [] instr.name = "write"    -> write(s, p, limit)
      [] instr.name = "dup"      -> dup(s, p, limit)

\* The rest of a loop iteration once the dispatched method has produced res:
\* display() (which only reads) and the counter increment.  When the method
\* raised, run() is left with the pops already made and no increment.
Commit(res) ==
    /\ InBounds(res)
    /\ output' = output \o res.emit
    /\ IF res.raised = ""
       THEN /\ stack' = display(res.stack).elems
            /\ pc' = Advance(res.pc)
            /\ status' = "running"
       ELSE /\ stack' = res.stack
            /\ pc' = res.pc
            /\ status' = res.raised
    /\ prev' = [executed |-> TRUE, pc |-> pc, stack |-> stack, output |-> output]
    /\ UNCHANGED <<instructions, size_limit>>

\* One loop iteration that fetches and dispatches loadcon.
run_loadcon ==
    /\ Fetchable
    /\ Fetch(pc).name = "loadcon"
    /\ Commit(loadcon(stack, pc, size_limit, Fetch(pc).value))

\* One loop iteration that fetches and dispatches zero.
run_zero ==
    /\ Fetchable
    /\ Fetch(pc).name = "zero"
    /\ Commit(zero(stack, pc, size_limit))

\* One loop iteration that fetches and dispatches one.
run_one ==
    /\ Fetchable
    /\ Fetch(pc).name = "one"
    /\ Commit(one(stack, pc, size_limit))

\* One loop iteration that fetches and dispatches br.
run_br ==
    /\ Fetchable
    /\ Fetch(pc).name = "br"
    /\ Commit(br(stack, pc, size_limit))

\* One loop iteration that fetches and dispatches br_false.
run_br_false ==
    /\ Fetchable
    /\ Fetch(pc).name = "br_false"
    /\ Commit(br_false(stack, pc, size_limit))

\* One loop iteration that fetches and dispatches add.
run_add ==
    /\ Fetchable
    /\ Fetch(pc).name = "add"
    /\ Commit(add(stack, pc, size_limit))

\* One loop iteration that fetches and dispatches negate.
run_negate ==
    /\ Fetchable
    /\ Fetch(pc).name = "negate"
    /\ Commit(negate(stack, pc, size_limit))

\* One loop iteration that fetches and dispatches equal.
run_equal ==
    /\ Fetchable
    /\ Fetch(pc).name = "equal"
    /\ Commit(equal(stack, pc, size_limit))

\* One loop iteration that fetches and dispatches less.
run_less ==
    /\ Fetchable
    /\ Fetch(pc).name = "less"
    /\ Commit(less(stack, pc, size_limit))

\* One loop iteration that fetches and dispatches swap.
run_swap ==
    /\ Fetchable
    /\ Fetch(pc).name = "swap"
    /\ Commit(swap(stack, pc, size_limit))

\* One loop iteration that fetches and dispatches mpy.
run_mpy ==
    /\ Fetchable
    /\ Fetch(pc).name = "mpy"
    /\ Commit(mpy(stack, pc, size_limit))

\* One loop iteration that fetches and dispatches write.
run_write ==
    /\ Fetchable
    /\ Fetch(pc).name = "write"
    /\ Commit(write(stack, pc, size_limit))

\* One loop iteration that fetches and dispatches dup.
run_dup ==
    /\ Fetchable
    /\ Fetch(pc).name = "dup"
    /\ Commit(dup(stack, pc, size_limit))

\* The break of the loop: run() returns.
run_break ==
    /\ status = "running"
    /\ PastEnd(pc, Len(instructions))
    /\ status' = "finished"
    /\ UNCHANGED <<instructions, size_limit, stack, pc, output, prev>>

\* self._instructions[self._program_counter] raises IndexError.
run_index_error ==
    /\ status = "running"
    /\ ~PastEnd(pc, Len(instructions))
    /\ IndexRaises(pc, Len(instructions))
    /\ status' = "IndexError"
    /\ UNCHANGED <<instructions, size_limit, stack, pc, output, prev>>

Next ==
    \/ run_loadcon
    \/ run_zero
    \/ run_one
    \/ run_br
    \/ run_br_false
    \/ run_add
    \/ run_negate
    \/ run_equal
    \/ run_less
    \/ run_swap
    \/ run_mpy
    \/ run_write
    \/ run_dup
    \/ run_break
    \/ run_index_error

Spec == Init /\ [][Next]_vars

\* ------------------------------------------------------- the Stack alone
\* A Stack object used directly: Stack(size_limit, elements), then push and
\* pop calls.  It shares the variables of the engine: status is "stack" while
\* the object lives and "Exception" when its constructor raised; output holds
\* the value returned by the last call when that call was pop (empty after
\* push); prev.stack is the list before the last call and, before any call,
\* the elements argument of the constructor.
StackArgs ==
    UNION {[1..n -> Operands] : n \in 0..MaxInit}

StackObjInit ==
    /\ size_limit \in -1..MaxCap
    /\ \E elements \in StackArgs :
          /\ stack = StackInit(size_limit, elements).elems
          /\ status = IF StackInit(size_limit, elements).ok
                      THEN "stack" ELSE "Exception"
          /\ prev = [executed |-> FALSE, pc |-> 0, stack |-> elements,
                     output |-> <<>>]
    /\ instructions = <<>>
    /\ pc = 0
    /\ output = <<>>

\* Stack.push(elem) called on the object.
stack_push ==
    /\ status = "stack"
    /\ \E elem \in Operands : stack' = Push(stack, elem, size_limit)
    /\ output' = <<>>
    /\ prev' = [executed |-> TRUE, pc |-> 0, stack |-> stack, output |-> output]
    /\ UNCHANGED <<instructions, size_limit, pc, status>>

\* Stack.pop() called on the object.
stack_pop ==
    /\ status = "stack"
    /\ stack' = PopRest(stack)
    /\ output' = <<PopValue(stack)>>
    /\ prev' = [executed |-> TRUE, pc |-> 0, stack |-> stack, output |-> output]
    /\ UNCHANGED <<instructions, size_limit, pc, status>>

\* Either a Stack used on its own or an engine running a program.
StackSpecInit == StackObjInit \/ Init

StackSpecNext ==
    \/ stack_push
    \/ stack_pop
    \/ Next

StackSpec == StackSpecInit /\ [][StackSpecNext]_vars

\* ------------------------------------------------------------------ claims
\* The instruction the last executed iteration fetched.
PrevInstr == Fetch(prev.pc)

\* Minimum stack depth each opcode method tests for before touching values.
MinDepth(name) ==
    IF name \in {"dup", "negate", "write", "br"} THEN 1
    ELSE IF name \in {"swap", "add", "mpy", "equal", "less", "br_false"} THEN 2
    ELSE 0

Pushing == {"loadcon", "zero", "one", "dup"}

\* C1: in every reachable state the value stack holds at most as many
\* elements as the capacity given at construction.
C1_SizeWithinCapacity == Len(stack) <= size_limit

\* A pushing instruction ran on a full, non-empty stack and left it alone.
C1_Witness ==
    /\ prev.executed
    /\ size_limit >= 1
    /\ Len(prev.stack) = size_limit
    /\ PrevInstr.name \in Pushing
    /\ stack = prev.stack

\* C2: an opcode executed on a stack below its minimum depth leaves the
\* stack unchanged, emits nothing, applies no branch offset, raises nothing,
\* and the program counter is exactly one more than before.
C2_SoftUnderflow ==
    (prev.executed /\ Len(prev.stack) < MinDepth(PrevInstr.name)) =>
        /\ stack = prev.stack
        /\ output = prev.output
        /\ pc = prev.pc + 1
        /\ status # "TypeError"

\* br_false ran with only an offset on the stack.
C2_Witness ==
    /\ prev.executed
    /\ PrevInstr.name = "br_false"
    /\ Len(prev.stack) = 1
    /\ prev.stack[1] = IntV(2)
    /\ pc = prev.pc + 1

\* C3: after a non-branch instruction the program counter is old+1; after br
\* with at least one element and popped offset k it is old+k+1.
C3_PcRule ==
    prev.executed =>
        /\ PrevInstr.name \notin {"br", "br_false"} => pc = prev.pc + 1
        /\ (PrevInstr.name = "br" /\ Len(prev.stack) >= 1) =>
              /\ IsInt(PopValue(prev.stack))
              /\ pc = prev.pc + PopValue(prev.stack).val + 1

\* C4 as stated: [loadcon 1, loadcon 2, br, write, write] with capacity at
\* least 2 fires exactly one write, and that write emits 1.
C4_Offset2SkipsOne ==
    (instructions = ProgBr2 /\ size_limit >= 2 /\ status = "finished") =>
        output = <<IntV(1)>>

\* C4 amended: with popped offset 2 the counter goes from 2 to 5, so neither
\* write is executed, nothing is emitted and 1 stays on the stack; with popped
\* offset 1 exactly the first write is skipped and the second emits 1.
C4_Offset2SkipsBoth ==
    /\ (instructions = ProgBr2 /\ size_limit >= 2) =>
          /\ status \in {"running", "finished"}
          /\ pc \in {0, 1, 2, 5}
          /\ output = <<>>
          /\ status = "finished" => (pc = 5 /\ stack = <<IntV(1)>>)
    /\ (instructions = ProgBr1 /\ size_limit >= 2) =>
          /\ status \in {"running", "finished"}
          /\ pc \in {0, 1, 2, 4, 5}
          /\ Len(output) <= 1
          /\ status = "finished" =>
                (pc = 5 /\ stack = <<>> /\ output = <<IntV(1)>>)

C4_Witness ==
    /\ instructions = ProgBr2
    /\ size_limit >= 2
    /\ status = "finished"
    /\ prev.executed /\ prev.pc = 2 /\ PrevInstr.name = "br"

\* The program obeys the operand rule: integer operand exactly on loadcon.
OperandRule ==
    \A i \in 1..Len(instructions) :
        (instructions[i].value # None) <=> (instructions[i].name = "loadcon")

\* C5: an instruction is fetched and executed only from a program counter
\* inside [0, len(instructions)); from any other counter nothing more is
\* executed.  (Stated for programs that obey the operand rule.)
C5_FetchOnlyInRange ==
    (OperandRule /\ prev.executed) => prev.pc \in 0..(Len(instructions) - 1)

\* C6: no step of run raises; a run is either still going or has returned.
\* (Stated for programs that obey the operand rule.)
C6_NoExecutionFailure == OperandRule => status \in {"running", "finished"}

\* C7: every constructed Instruction (here: every instruction of the program
\* handed to the engine) has an opcode of the closed set and carries an
\* operand exactly when the opcode is loadcon.
C7_OperandIffLoadcon ==
    \A i \in 1..Len(instructions) :
        /\ instructions[i].name \in INSTRUCTIONS
        /\ (instructions[i].value # None) <=> (instructions[i].name = "loadcon")

\* C8: br_false on at least two elements pops offset and condition; with
\* condition 1 the counter advances by 1, otherwise by offset+1.
C8_BrFalse ==
    (prev.executed /\ PrevInstr.name = "br_false" /\ Len(prev.stack) >= 2) =>
        LET offset == prev.stack[Len(prev.stack)]
            cond   == prev.stack[Len(prev.stack) - 1]
        IN  /\ stack = SubSeq(prev.stack, 1, Len(prev.stack) - 2)
            /\ IF cond = IntV(1)
               THEN pc = prev.pc + 1
               ELSE IsInt(offset) /\ pc = prev.pc + offset.val + 1

\* A run that has not returned can take its next loop iteration.
NotStuck == status = "finished" \/ ENABLED Next

\* The iterations executed so far each moved the counter forward by one, so
\* the run visits every index at most once and reaches the end.
StraightLine == prev.executed => pc = prev.pc + 1

\* C9: [loadcon 2, loadcon 3, negate, add, write] on capacity at least 2
\* terminates (no raise, never stuck, counter rising by one up to 5), emits
\* exactly one value, -1, and ends with an empty stack.
C9_MainProgram ==
    (instructions = ProgMain /\ size_limit >= 2) =>
        /\ status \in {"running", "finished"}
        /\ NotStuck
        /\ StraightLine
        /\ pc \in 0..5
        /\ Len(output) <= 1
        /\ status = "finished" =>
              (pc = 5 /\ output = <<IntV(-1)>> /\ stack = <<>>)

C9_Witness ==
    /\ instructions = ProgMain
    /\ size_limit >= 2
    /\ status = "finished"
    /\ output = <<IntV(-1)>>

\* C10 as stated: for every N, [loadcon N, dup, mpy, write] emits exactly
\* N*N and ends with an empty stack, on any (positive) capacity.
C10_SquareAnyCapacity ==
    \A N \in -MaxN..MaxN :
        (instructions = ProgSquare(N) /\ size_limit >= 1 /\ status = "finished") =>
            (output = <<IntV(N * N)>> /\ stack = <<>>)

\* C10 amended: for every N, on a stack of capacity at least 2 the program
\* terminates, emits exactly one value, N*N, and ends with an empty stack.
C10_SquareCapacity2 ==
    \A N \in -MaxN..MaxN :
        (instructions = ProgSquare(N) /\ size_limit >= 2) =>
            /\ status \in {"running", "finished"}
            /\ NotStuck
            /\ StraightLine
            /\ pc \in 0..4
            /\ Len(output) <= 1
            /\ status = "finished" =>
                  (pc = 4 /\ output = <<IntV(N * N)>> /\ stack = <<>>)

C10_Witness ==
    /\ instructions = ProgSquare(5)
    /\ size_limit >= 2
    /\ status = "finished"
    /\ output = <<IntV(25)>>

\* The top two elements before the last executed instruction.
PrevTop == prev.stack[Len(prev.stack)]
PrevSecond == prev.stack[Len(prev.stack) - 1]
PrevBelow2 == SubSeq(prev.stack, 1, Len(prev.stack) - 2)

\* C11: on two integers on top of the stack, equal and less replace them by
\* exactly one value, 0 or 1: equal gives 1 iff they are equal, less gives 1
\* iff the second-from-top is strictly less than the top.
C11_EqualLessBoolean ==
    (/\ prev.executed
     /\ PrevInstr.name \in {"equal", "less"}
     /\ Len(prev.stack) >= 2
     /\ IsInt(PrevTop) /\ IsInt(PrevSecond)) =>
        LET truth == IF PrevInstr.name = "equal"
                     THEN PrevSecond.val = PrevTop.val
                     ELSE PrevSecond.val < PrevTop.val
        IN  /\ status # "TypeError"
            /\ Len(stack) = Len(prev.stack) - 1
            /\ stack = Append(PrevBelow2, IntV(IF truth THEN 1 ELSE 0))

\* less ran on second = -2 below top = 2 and pushed 1.
C11_Witness ==
    /\ prev.executed
    /\ PrevInstr.name = "less"
    /\ Len(prev.stack) >= 2
    /\ PrevSecond = IntV(-2) /\ PrevTop = IntV(2)
    /\ stack = Append(PrevBelow2, IntV(1))

\* C12: the output grows only by an executed write that found a non-empty
\* stack, by exactly the value that write popped, appended at the end; write
\* pushes nothing, and every other executed instruction leaves the output as
\* it was.  The output is empty before the first instruction.
C12_OutputIsWrites ==
    /\ ~prev.executed => output = <<>>
    /\ prev.executed =>
          IF PrevInstr.name = "write" /\ Len(prev.stack) >= 1
          THEN /\ output = Append(prev.output, PrevTop)
               /\ stack = SubSeq(prev.stack, 1, Len(prev.stack) - 1)
          ELSE output = prev.output

\* A second write appended its value after the first one's.
C12_Witness ==
    /\ prev.executed
    /\ PrevInstr.name = "write"
    /\ Len(prev.output) = 1
    /\ Len(output) = 2
    /\ output[1] # output[2]

\* C13: a pushing instruction (loadcon, zero, one, dup with an element to
\* duplicate) on a full stack leaves the stack as it was, raises nothing and
\* the counter advances by 1; below capacity it makes the stack exactly one
\* element longer, so k pushes below capacity add exactly k elements.
C13_SoftOverflow ==
    (/\ prev.executed
     /\ PrevInstr.name \in Pushing
     /\ PrevInstr.name = "dup" => Len(prev.stack) >= 1) =>
        /\ status \in {"running", "finished", "IndexError"}
        /\ pc = prev.pc + 1
        /\ IF Len(prev.stack) >= size_limit
           THEN stack = prev.stack
           ELSE /\ Len(stack) = Len(prev.stack) + 1
                /\ SubSeq(stack, 1, Len(prev.stack)) = prev.stack

\* dup ran on a full, non-empty stack and left it alone.
C13_Witness ==
    /\ prev.executed
    /\ PrevInstr.name = "dup"
    /\ size_limit >= 2
    /\ Len(prev.stack) = size_limit
    /\ stack = prev.stack
    /\ pc = prev.pc + 1

\* C15: the display made after each executed instruction changes nothing:
\* after an iteration the stack is what the dispatched method left and the
\* counter is what it left plus one; and no step of run changes the
\* instruction sequence.
C15_DisplayPure ==
    [][/\ instructions' = instructions
       /\ Fetchable =>
             LET r == Dispatch(Fetch(pc), stack, pc, size_limit)
             IN  /\ stack' = r.stack
                 /\ r.raised = "" => pc' = r.pc + 1]_vars

\* display has run on a stack whose order shows: two different elements.
C15_Witness ==
    /\ prev.executed
    /\ status = "running"
    /\ Len(stack) >= 2
    /\ stack[1] # stack[2]

\* C17: with at least two elements, add and mpy replace the top two elements
\* a and b by a+b (a*b): one element fewer, everything below unchanged.
C17_AddMpy ==
    (/\ prev.executed
     /\ PrevInstr.name \in {"add", "mpy"}
     /\ Len(prev.stack) >= 2) =>
        /\ IsInt(PrevTop) /\ IsInt(PrevSecond)
        /\ Len(stack) = Len(prev.stack) - 1
        /\ stack = Append(PrevBelow2,
                          IntV(IF PrevInstr.name = "add"
                               THEN PrevTop.val + PrevSecond.val
                               ELSE PrevTop.val * PrevSecond.val))

\* C18: swap on at least two elements exchanges the top two and leaves the
\* size and everything below unchanged, also on a full stack; a second swap
\* gives back the original stack.  [loadcon 3, loadcon 2, loadcon -5, swap,
\* swap] runs both swaps above a third element, on a full stack at capacity 3.
C18_Swap ==
    /\ (/\ prev.executed
        /\ PrevInstr.name = "swap"
        /\ Len(prev.stack) >= 2) =>
           /\ status # "TypeError"
           /\ Len(stack) = Len(prev.stack)
           /\ SubSeq(stack, 1, Len(stack) - 2) = PrevBelow2
           /\ stack = PrevBelow2 \o <<PrevTop, PrevSecond>>
           /\ swap(stack, pc, size_limit).stack = prev.stack
    /\ (instructions = ProgSwap2 /\ size_limit >= 2) =>
           /\ pc = 3 => stack = <<IntV(-5), IntV(2)>>
           /\ pc = 4 => stack = <<IntV(2), IntV(-5)>>
    /\ (instructions = ProgSwap3 /\ size_limit >= 3) =>
           /\ pc = 3 => stack = <<IntV(3), IntV(2), IntV(-5)>>
           /\ pc = 4 => stack = <<IntV(3), IntV(-5), IntV(2)>>
           /\ pc = 5 => stack = <<IntV(3), IntV(2), IntV(-5)>>

\* The second swap of [loadcon 3, loadcon 2, loadcon -5, swap, swap] has run
\* on a full stack of three: the element below the top two is still there
\* and the original order is back.
C18_Witness ==
    /\ instructions = ProgSwap3
    /\ size_limit = 3
    /\ pc = 5
    /\ prev.executed /\ prev.pc = 4 /\ PrevInstr.name = "swap"
    /\ Len(prev.stack) = size_limit
    /\ PrevBelow2 = <<IntV(3)>>
    /\ prev.stack = <<IntV(3), IntV(-5), IntV(2)>>
    /\ stack = <<IntV(3), IntV(2), IntV(-5)>>

NoBranch ==
    \A i \in 1..Len(instructions) :
        instructions[i].name \notin {"br", "br_false"}

\* C19: a program without br and br_false terminates on any capacity after
\* executing each instruction once, in index order: no raise, never stuck,
\* the counter rising by one per instruction, and ending equal to the length.
C19_NoBranchTerminates ==
    NoBranch =>
        /\ status \in {"running", "finished"}
        /\ NotStuck
        /\ StraightLine
        /\ pc \in 0..Len(instructions)
        /\ status = "finished" => pc = Len(instructions)

\* C20: [loadcon -2, br] on capacity at least 1 never terminates: the run is
\* always running and able to take its next iteration, only indexes 0 and 1
\* are executed, the counter is 0 after every br, and the stack (empty at 0,
\* holding -2 at 1) stays within capacity.
C20_EndlessLoop ==
    (instructions = ProgLoop /\ size_limit >= 1) =>
        /\ status = "running"
        /\ ENABLED Next
        /\ pc \in {0, 1}
        /\ (prev.executed /\ PrevInstr.name = "br") => pc = 0
        /\ pc = 0 => stack = <<>>
        /\ pc = 1 => stack = <<IntV(-2)>>
        /\ Len(stack) <= size_limit

\* The loop has come round: loadcon at index 0 was executed again after a br
\* had set the counter back to 0, and the next br has returned to 0 as well.
C20_Witness ==
    /\ instructions = ProgLoop
    /\ size_limit >= 1
    /\ status = "running"
    /\ pc = 0
    /\ prev.executed /\ prev.pc = 1 /\ PrevInstr.name = "br"
    /\ prev.stack = <<IntV(-2)>>
    /\ stack = <<>>
    /\ ENABLED run_loadcon

\* C14: pop on an empty stack returns None and leaves the size at 0; pop on
\* a non-empty stack returns the element on top, which is the most recently
\* pushed one still present (an accepted push puts its element on top of the
\* unchanged rest), and makes the stack exactly one element shorter.
C14_PopLifo ==
    (status = "stack" /\ prev.executed) =>
        IF Len(output) = 1
        THEN IF Len(prev.stack) = 0
             THEN output = <<None>> /\ Len(stack) = 0
             ELSE /\ output = <<prev.stack[Len(prev.stack)]>>
                  /\ Len(stack) = Len(prev.stack) - 1
                  /\ stack = SubSeq(prev.stack, 1, Len(prev.stack) - 1)
        ELSE \/ stack = prev.stack
             \/ /\ Len(stack) = Len(prev.stack) + 1
                /\ SubSeq(stack, 1, Len(prev.stack)) = prev.stack

\* pop returned the top of a stack holding two different elements.
C14_Witness ==
    /\ status = "stack"
    /\ prev.executed
    /\ Len(prev.stack) = 2
    /\ prev.stack[1] # prev.stack[2]
    /\ output = <<prev.stack[2]>>
    /\ stack = <<prev.stack[1]>>

\* pop was called on an empty stack of positive capacity and returned None.
C14_WitnessEmpty ==
    /\ status = "stack"
    /\ prev.executed
    /\ size_limit >= 1
    /\ prev.stack = <<>>
    /\ output = <<None>>
    /\ stack = <<>>

\* C16: Stack(size_limit, elements) raises exactly when there are more
\* elements than size_limit; otherwise the new stack holds exactly the given
\* elements in order; and a newly created engine has an empty stack and its
\* program counter at 0.
C16_Construction ==
    ~prev.executed =>
        /\ (status = "Exception") <=> (Len(prev.stack) > size_limit)
        /\ status = "stack" => stack = prev.stack
        /\ status \in {"running", "finished"} => (stack = <<>> /\ pc = 0)
        /\ status \in {"stack", "Exception", "running", "finished"}

\* A constructor call with one element too many raised.
C16_Witness ==
    /\ ~prev.executed
    /\ size_limit >= 1
    /\ Len(prev.stack) = size_limit + 1
    /\ status = "Exception"

====
